---- MODULE Spec2Model ----
(***************************************************************************)
(* Marketing Messaging Analyzer: the analysis pipeline of                  *)
(* services/llm_service.py.                                                *)
(*                                                                         *)
(* Text is modelled as a sequence of characters (one-character strings;    *)
(* "\n" is the newline, "U+2019" the right single quotation mark), so that *)
(* the regular expressions, strip(), lower() and the `in` tests of the     *)
(* source are computed on characters as the source computes them.          *)
(***************************************************************************)
EXTENDS Integers, Sequences, FiniteSets, TLC

------------------------------------------------------------------------------
(* Bounds of the model *)

\* analyze_marketing_insights is called at most MaxCalls times in a behaviour
MaxCalls ==
    2

\* the GEMINI_MAX_RETRIES overrides tried are 0 .. MaxRetriesOverride
MaxRetriesOverride ==
    3

------------------------------------------------------------------------------
(* Program constants *)

\* llm_service.py: DEFAULT_MAX_RETRIES = 3
DEFAULT_MAX_RETRIES ==
    3

\* settings.py: MAX_RETRIES = 5
MAX_RETRIES ==
    5

------------------------------------------------------------------------------
(* Characters and the str methods the source uses *)

NL ==
    "\n"

\* what str.strip() removes and the regex class \s matches
IsSpace(c) ==
    c \in {" ", "\n", "\t"}

DigitChars ==
    <<"0", "1", "2", "3", "4", "5", "6", "7", "8", "9">>

\* the regex classes [0-9] and \d
IsDigit(c) ==
    \E d \in 1..10 : DigitChars[d] = c

DigitVal(c) ==
    (CHOOSE d \in 1..10 : DigitChars[d] = c) - 1

UpperChars ==
    <<"A", "B", "C", "D", "E", "F", "G", "H", "I", "J", "K", "L", "M",
      "N", "O", "P", "Q", "R", "S", "T", "U", "V", "W", "X", "Y", "Z">>

LowerChars ==
    <<"a", "b", "c", "d", "e", "f", "g", "h", "i", "j", "k", "l", "m",
      "n", "o", "p", "q", "r", "s", "t", "u", "v", "w", "x", "y", "z">>

LowerOf ==
    [c \in {UpperChars[i] : i \in 1..26} |->
        LowerChars[CHOOSE i \in 1..26 : UpperChars[i] = c]]

\* str.lower()
lower(s) ==
    [i \in 1..Len(s) |-> IF s[i] \in DOMAIN LowerOf THEN LowerOf[s[i]] ELSE s[i]]

SetMin(S) ==
    CHOOSE x \in S : \A y \in S : x <= y

SetMax(S) ==
    CHOOSE x \in S : \A y \in S : x >= y

\* first index >= i of s that holds no whitespace (Len(s) + 1 if none)
RECURSIVE SkipSpaces(_, _)
SkipSpaces(s, i) ==
    IF i <= Len(s) /\ IsSpace(s[i]) THEN SkipSpaces(s, i + 1) ELSE i

\* last index <= i of s that holds no whitespace (0 if none)
RECURSIVE SkipSpacesBack(_, _)
SkipSpacesBack(s, i) ==
    IF i >= 1 /\ IsSpace(s[i]) THEN SkipSpacesBack(s, i - 1) ELSE i

\* str.strip()
strip(s) ==
    SubSeq(s, SkipSpaces(s, 1), SkipSpacesBack(s, Len(s)))

\* p occurs in s at index i
MatchAt(s, p, i) ==
    /\ i >= 1
    /\ i + Len(p) - 1 <= Len(s)
    /\ \A j \in 1..Len(p) : s[i + j - 1] = p[j]

\* the indices at which p occurs in s
Occurrences(s, p) ==
    {i \in 1..(Len(s) - Len(p) + 1) : MatchAt(s, p, i)}

\* Python's `p in s`
Contains(s, p) ==
    \E i \in 1..(Len(s) - Len(p) + 1) : MatchAt(s, p, i)

\* `any(w in s for w in words)`
ContainsAny(s, words) ==
    \E k \in 1..Len(words) : Contains(s, words[k])

\* index of the first character c of s at or after i (0 if none)
RECURSIVE IndexOf(_, _, _)
IndexOf(s, c, i) ==
    IF i > Len(s) THEN 0
    ELSE IF s[i] = c THEN i
    ELSE IndexOf(s, c, i + 1)

\* str.splitlines(), for texts whose only line break is "\n"
RECURSIVE splitlines(_)
splitlines(s) ==
    IF s = <<>> THEN <<>>
    ELSE LET n == IndexOf(s, NL, 1)
         IN  IF n = 0 THEN <<s>>
             ELSE <<SubSeq(s, 1, n - 1)>> \o splitlines(SubSeq(s, n + 1, Len(s)))

\* " ".join(parts) and the like
RECURSIVE join(_, _)
join(sep, parts) ==
    IF parts = <<>> THEN <<>>
    ELSE IF Len(parts) = 1 THEN parts[1]
    ELSE parts[1] \o sep \o join(sep, Tail(parts))

\* int(s) for a string of decimal digits
RECURSIVE int(_)
int(s) ==
    IF s = <<>> THEN 0
    ELSE 10 * int(SubSeq(s, 1, Len(s) - 1)) + DigitVal(s[Len(s)])

\* str(n) for an integer n >= 0
RECURSIVE str(_)
str(n) ==
    IF n < 10 THEN <<DigitChars[n + 1]>>
    ELSE str(n \div 10) \o <<DigitChars[(n % 10) + 1]>>

max(a, b) ==
    IF a >= b THEN a ELSE b

min(a, b) ==
    IF a <= b THEN a ELSE b

------------------------------------------------------------------------------
(* String literals of the source *)

LABEL_HOOK_SCORE ==
    <<"H", "O", "O", "K", "_", "S", "C", "O", "R", "E", ":">>

LABEL_HOOK_SCORE_JUSTIFICATION ==
    <<"H", "O", "O", "K", "_", "S", "C", "O", "R", "E", "_", "J", "U", "S", "T", "I", "F", "I",
    "C", "A", "T", "I", "O", "N", ":">>

LABEL_AUDIENCE_PERSONA ==
    <<"A", "U", "D", "I", "E", "N", "C", "E", "_", "P", "E", "R", "S", "O", "N", "A", ":">>

LABEL_AUDIENCE_PERSONA_JUSTIFICATION ==
    <<"A", "U", "D", "I", "E", "N", "C", "E", "_", "P", "E", "R", "S", "O", "N", "A", "_", "J",
    "U", "S", "T", "I", "F", "I", "C", "A", "T", "I", "O", "N", ":">>

LABEL_CONVERSION_KILLERS ==
    <<"C", "O", "N", "V", "E", "R", "S", "I", "O", "N", "_", "K", "I", "L", "L", "E", "R", "S",
    ":">>

DEFAULT_PERSONA ==
    <<"U", "n", "k", "n", "o", "w", "n", " ", "a", "u", "d", "i", "e", "n", "c", "e">>

MSG_MISSING_KEY ==
    <<"M", "i", "s", "s", "i", "n", "g", " ", "A", "P", "I", " ", "k", "e", "y", ".", " ", "S",
    "e", "t", " ", "G", "E", "M", "I", "N", "I", "_", "A", "P", "I", "_", "K", "E", "Y", " ",
    "o", "r", " ", "G", "O", "O", "G", "L", "E", "_", "A", "P", "I", "_", "K", "E", "Y", " ",
    "i", "n", " ", "y", "o", "u", "r", " ", "e", "n", "v", "i", "r", "o", "n", "m", "e", "n",
    "t", " ", "o", "r", " ", ".", "e", "n", "v", " ", "f", "i", "l", "e", ".">>

MSG_CONFIGURE_FAILED ==
    <<"F", "a", "i", "l", "e", "d", " ", "t", "o", " ", "c", "o", "n", "f", "i", "g", "u", "r",
    "e", " ", "g", "o", "o", "g", "l", "e", "-", "g", "e", "n", "e", "r", "a", "t", "i", "v",
    "e", "a", "i", ".", " ", "C", "h", "e", "c", "k", " ", "y", "o", "u", "r", " ", "A", "P",
    "I", " ", "k", "e", "y", " ", "a", "n", "d", " ", "l", "i", "b", "r", "a", "r", "y", " ",
    "i", "n", "s", "t", "a", "l", "l", "a", "t", "i", "o", "n", ".">>

MSG_BLOCKED_HEAD ==
    <<"A", "I", " ", "r", "e", "s", "p", "o", "n", "s", "e", " ", "w", "a", "s", " ", "b", "l",
    "o", "c", "k", "e", "d", " ", "b", "y", " ", "s", "a", "f", "e", "t", "y", " ", "f", "i",
    "l", "t", "e", "r", "s", " ", "(", "r", "e", "a", "s", "o", "n", ":", " ">>

MSG_BLOCKED_TAIL ==
    <<")", ".", " ", "T", "r", "y", " ", "a", " ", "d", "i", "f", "f", "e", "r", "e", "n", "t",
    " ", "U", "R", "L", " ", "o", "r", " ", "l", "e", "s", "s", " ", "s", "e", "n", "s", "i",
    "t", "i", "v", "e", " ", "c", "o", "n", "t", "e", "n", "t", ".">>

MSG_NO_TEXT ==
    <<"A", "I", " ", "d", "i", "d", " ", "n", "o", "t", " ", "r", "e", "t", "u", "r", "n", " ",
    "a", "n", "y", " ", "u", "s", "a", "b", "l", "e", " ", "t", "e", "x", "t", " ", "(", "n",
    "o", " ", "c", "o", "n", "t", "e", "n", "t", " ", "p", "a", "r", "t", "s", ")", ".", " ",
    "T", "h", "i", "s", " ", "c", "a", "n", " ", "h", "a", "p", "p", "e", "n", " ", "i", "f",
    " ", "t", "h", "e", " ", "m", "o", "d", "e", "l", " ", "w", "a", "s", " ", "i", "n", "t",
    "e", "r", "r", "u", "p", "t", "e", "d", ",", " ", "b", "l", "o", "c", "k", "e", "d", ",",
    " ", "o", "r", " ", "m", "i", "s", "c", "o", "n", "f", "i", "g", "u", "r", "e", "d", ".">>

MSG_UNEXPECTED_HEAD ==
    <<"U", "n", "e", "x", "p", "e", "c", "t", "e", "d", " ", "e", "r", "r", "o", "r", " ", "d",
    "u", "r", "i", "n", "g", " ", "G", "e", "m", "i", "n", "i", " ", "c", "a", "l", "l", ":",
    " ">>

MSG_EXHAUSTED_HEAD ==
    <<"G", "e", "m", "i", "n", "i", " ", "c", "a", "l", "l", " ", "f", "a", "i", "l", "e", "d",
    " ", "a", "f", "t", "e", "r", " ">>

MSG_EXHAUSTED_TAIL ==
    <<" ", "a", "t", "t", "e", "m", "p", "t", "s", ".", " ", "L", "a", "s", "t", " ", "e", "r",
    "r", "o", "r", ":", " ">>

MSG_EMPTY_ANALYSIS ==
    <<"A", "I", " ", "r", "e", "t", "u", "r", "n", "e", "d", " ", "a", "n", " ", "e", "m", "p",
    "t", "y", " ", "a", "n", "a", "l", "y", "s", "i", "s", ".", " ", "C", "a", "n", "n", "o",
    "t", " ", "p", "a", "r", "s", "e", ".">>

REPR_NONE ==
    <<"N", "o", "n", "e">>

transient_indicators ==
    << <<"u", "n", "a", "v", "a", "i", "l", "a", "b", "l", "e">>,
       <<"i", "n", "t", "e", "r", "n", "a", "l">>,
       <<"d", "e", "a", "d", "l", "i", "n", "e">> >>

power_words ==
    << <<"b", "e", "s", "t">>,
       <<"u", "l", "t", "i", "m", "a", "t", "e">>,
       <<"g", "u", "i", "d", "e">>,
       <<"f", "r", "e", "e">>,
       <<"s", "t", "e", "p", "-", "b", "y", "-", "s", "t", "e", "p">>,
       <<"p", "r", "o", "v", "e", "n">> >>

developer_keywords ==
    << <<"d", "e", "v", "e", "l", "o", "p", "e", "r">>,
       <<"j", "a", "v", "a", "s", "c", "r", "i", "p", "t">>,
       <<"r", "e", "a", "c", "t">>,
       <<"f", "r", "o", "n", "t", "e", "n", "d">> >>

marketing_keywords ==
    << <<"m", "a", "r", "k", "e", "t", "i", "n", "g">>,
       <<"b", "r", "a", "n", "d">>,
       <<"c", "a", "m", "p", "a", "i", "g", "n">>,
       <<"c", "o", "n", "v", "e", "r", "s", "i", "o", "n">> >>

ecommerce_keywords ==
    << <<"e", "c", "o", "m", "m", "e", "r", "c", "e">>,
       <<"s", "h", "o", "p">>,
       <<"c", "a", "r", "t">>,
       <<"c", "h", "e", "c", "k", "o", "u", "t">> >>

PERSONA_DEVELOPER ==
    <<"W", "e", "b", " ", "d", "e", "v", "e", "l", "o", "p", "e", "r", "s", " ", "e", "x", "p",
    "l", "o", "r", "i", "n", "g", " ", "t", "e", "c", "h", "n", "i", "c", "a", "l", " ", "c",
    "o", "n", "t", "e", "n", "t", ".">>

PERSONA_MARKETING ==
    <<"M", "a", "r", "k", "e", "t", "i", "n", "g", " ", "p", "r", "o", "f", "e", "s", "s", "i",
    "o", "n", "a", "l", "s", " ", "f", "o", "c", "u", "s", "e", "d", " ", "o", "n", " ", "i",
    "m", "p", "r", "o", "v", "i", "n", "g", " ", "c", "o", "n", "v", "e", "r", "s", "i", "o",
    "n", "s", ".">>

PERSONA_ECOMMERCE ==
    <<"E", "-", "c", "o", "m", "m", "e", "r", "c", "e", " ", "s", "t", "o", "r", "e", " ", "o",
    "w", "n", "e", "r", "s", " ", "o", "r", " ", "m", "a", "n", "a", "g", "e", "r", "s", ".">>

PERSONA_GENERAL ==
    <<"G", "e", "n", "e", "r", "a", "l", " ", "o", "n", "l", "i", "n", "e", " ", "a", "u", "d",
    "i", "e", "n", "c", "e", " ", "i", "n", "t", "e", "r", "e", "s", "t", "e", "d", " ", "i",
    "n", " ", "t", "h", "i", "s", " ", "t", "o", "p", "i", "c", ".">>

FALLBACK_PERSONA_JUST ==
    <<"H", "e", "u", "r", "i", "s", "t", "i", "c", " ", "g", "u", "e", "s", "s", " ", "b", "a",
    "s", "e", "d", " ", "o", "n", " ", "k", "e", "y", "w", "o", "r", "d", "s", " ", "d", "e",
    "t", "e", "c", "t", "e", "d", " ", "i", "n", " ", "t", "h", "e", " ", "p", "a", "g", "e",
    " ", "c", "o", "n", "t", "e", "n", "t", ".">>

FALLBACK_HOOK_JUST ==
    <<"S", "c", "o", "r", "e", " ", "e", "s", "t", "i", "m", "a", "t", "e", "d", " ", "u", "s",
    "i", "n", "g", " ", "a", " ", "s", "i", "m", "p", "l", "e", " ", "h", "e", "u", "r", "i",
    "s", "t", "i", "c", " ", "(", "l", "e", "n", "g", "t", "h", ",", " ", "p", "o", "w", "e",
    "r", " ", "w", "o", "r", "d", "s", ",", " ", "p", "u", "n", "c", "t", "u", "a", "t", "i",
    "o", "n", ")", ".">>

JARGON_REASON ==
    <<"J", "a", "r", "g", "o", "n", " ", "c", "a", "n", " ", "c", "o", "n", "f", "u", "s", "e",
    " ", "r", "e", "a", "d", "e", "r", "s", ";", " ", "c", "o", "n", "s", "i", "d", "e", "r",
    " ", "u", "s", "i", "n", "g", " ", "s", "i", "m", "p", "l", "e", "r", ",", " ", "c", "o",
    "n", "c", "r", "e", "t", "e", " ", "l", "a", "n", "g", "u", "a", "g", "e", ".">>

jargon_terms ==
    << <<"s", "y", "n", "e", "r", "g", "y">>,
       <<"l", "o", "w", "-", "h", "a", "n", "g", "i", "n", "g", " ", "f", "r", "u", "i", "t">>,
       <<"t", "h", "i", "n", "k", " ", "o", "u", "t", "s", "i", "d", "e", " ", "t", "h", "e", " ", "b", "o", "x">>,
       <<"c", "i", "r", "c", "l", "e", " ", "b", "a", "c", "k">>,
       <<"t", "o", "u", "c", "h", " ", "b", "a", "s", "e">>,
       <<"b", "a", "n", "d", "w", "i", "d", "t", "h">>,
       <<"c", "o", "r", "e", " ", "c", "o", "m", "p", "e", "t", "e", "n", "c", "i", "e", "s">>,
       <<"a", "c", "t", "i", "o", "n", "a", "b", "l", "e", " ", "i", "t", "e", "m", "s">>,
       <<"r", "o", "b", "u", "s", "t">>,
       <<"c", "u", "t", "t", "i", "n", "g", "-", "e", "d", "g", "e">>,
       <<"g", "a", "m", "e", " ", "c", "h", "a", "n", "g", "e", "r">>,
       <<"n", "e", "x", "t", "-", "g", "e", "n", "e", "r", "a", "t", "i", "o", "n">>,
       <<"s", "t", "a", "t", "e", "-", "o", "f", "-", "t", "h", "e", "-", "a", "r", "t">>,
       <<"b", "e", "s", "t", "-", "i", "n", "-", "c", "l", "a", "s", "s">>,
       <<"v", "i", "r", "a", "l">>,
       <<"d", "a", "t", "a", "-", "d", "r", "i", "v", "e", "n">>,
       <<"h", "o", "l", "i", "s", "t", "i", "c">>,
       <<"m", "i", "s", "s", "i", "o", "n", "-", "c", "r", "i", "t", "i", "c", "a", "l">>,
       <<"g", "a", "m", "e", "-", "c", "h", "a", "n", "g", "i", "n", "g">>,
       <<"c", "u", "s", "t", "o", "m", "i", "z", "a", "b", "l", "e">>,
       <<"s", "c", "a", "l", "a", "b", "l", "e">>,
       <<"d", "i", "s", "r", "u", "p", "t", "i", "v", "e">>,
       <<"v", "a", "l", "u", "e", "-", "a", "d", "d">>,
       <<"b", "l", "e", "e", "d", "i", "n", "g", "-", "e", "d", "g", "e">>,
       <<"r", "o", "c", "k", "s", "t", "a", "r">>,
       <<"n", "i", "n", "j", "a">>,
       <<"v", "i", "r", "t", "u", "a", "l", "l", "y">>,
       <<"l", "e", "v", "e", "r", "a", "g", "e">>,
       <<"b", "a", "n", "d", "w", "i", "d", "t", "h">>,
       <<"a", "c", "t", "i", "o", "n", " ", "p", "l", "a", "n">>,
       <<"a", "c", "t", "i", "o", "n", " ", "i", "t", "e", "m">>,
       <<"d", "e", "e", "p", " ", "d", "i", "v", "e">>,
       <<"c", "o", "r", "e", " ", "c", "o", "m", "p", "e", "t", "e", "n", "c", "y">>,
       <<"w", "i", "n", "-", "w", "i", "n">>,
       <<"o", "p", "t", "i", "m", "i", "z", "a", "t", "i", "o", "n">>,
       <<"t", "h", "i", "n", "k", " ", "o", "u", "t", "s", "i", "d", "e", " ", "t", "h", "e", " ", "b", "o", "x">>,
       <<"l", "e", "t", "U+2019", "s", " ", "c", "i", "r", "c", "l", "e", " ", "b", "a", "c", "k">>,
       <<"t", "o", "u", "c", "h", " ", "b", "a", "s", "e">> >>

------------------------------------------------------------------------------
(* utils/exceptions.py: an exception is its class name and its message.     *)
(* LLMServiceError is the only class analyze_marketing_insights catches.    *)

TYPE_LLMServiceError ==
    <<"L", "L", "M", "S", "e", "r", "v", "i", "c", "e", "E", "r", "r", "o", "r">>

LLMServiceError(message) ==
    [type |-> TYPE_LLMServiceError, msg |-> message]

\* the value of a local that holds no exception
NoError ==
    [type |-> <<>>, msg |-> <<>>]

------------------------------------------------------------------------------
(* _extract_text_from_response                                             *)
(* A response is [candidates, block_reason]; a candidate is                *)
(* [has_content, parts]; a part is its text. <<>> stands for both None and *)
(* the empty string, which the source treats alike (`if t:`, `if not ..`).  *)

\* the text fragments of all parts of all candidates, in order
RECURSIVE collect_parts(_)
collect_parts(parts) ==
    IF parts = <<>> THEN <<>>
    ELSE (IF parts[1] # <<>> THEN <<parts[1]>> ELSE <<>>) \o collect_parts(Tail(parts))

RECURSIVE collect_candidates(_)
collect_candidates(candidates) ==
    IF candidates = <<>> THEN <<>>
    ELSE (IF candidates[1].has_content THEN collect_parts(candidates[1].parts) ELSE <<>>)
         \o collect_candidates(Tail(candidates))

\* [ok |-> TRUE, value |-> text] or [ok |-> FALSE, error |-> LLMServiceError]
_extract_text_from_response(response) ==
    LET collected == collect_candidates(response.candidates)
        raw_text == strip(join(<<" ">>, collected))
    IN  IF raw_text = <<>>
        THEN IF response.block_reason # <<>>
             THEN [ok |-> FALSE, value |-> <<>>,
                   error |-> LLMServiceError(
                       MSG_BLOCKED_HEAD \o response.block_reason \o MSG_BLOCKED_TAIL)]
             ELSE [ok |-> FALSE, value |-> <<>>, error |-> LLMServiceError(MSG_NO_TEXT)]
        ELSE [ok |-> TRUE, value |-> raw_text, error |-> NoError]

------------------------------------------------------------------------------
(* _parse_insights_text                                                    *)

\* index j of s holds a character of the class: "." (any but "\n"),
\* "[0-9]", or "(?s)." (any, as under re.DOTALL)
CharIn(s, j, class) ==
    /\ j <= Len(s)
    /\ CASE class = "."     -> s[j] # NL
         [] class = "[0-9]" -> IsDigit(s[j])
         [] class = "(?s)." -> TRUE

\* The \s* of a pattern, greedy with backtracking: from index e of s it
\* takes the most whitespace after which a character of the class comes.
\* 0: the rest of the pattern cannot match.
AfterSpaces(s, e, class) ==
    LET ks == {k \in 0..(SkipSpaces(s, e) - e) : CharIn(s, e + k, class)}
    IN  IF ks = {} THEN 0 ELSE e + SetMax(ks)

\* last index of the run of characters other than "\n" that starts at b
RECURSIVE LineEnd(_, _)
LineEnd(s, b) ==
    IF b + 1 <= Len(s) /\ s[b + 1] # NL THEN LineEnd(s, b + 1) ELSE b

\* last index of the run of at most n digits that starts at b
RECURSIVE DigitsEnd(_, _, _)
DigitsEnd(s, b, n) ==
    IF n > 1 /\ b + 1 <= Len(s) /\ IsDigit(s[b + 1]) THEN DigitsEnd(s, b + 1, n - 1) ELSE b

\* re.search(label + r"\s*(.+)", text, re.IGNORECASE | re.MULTILINE):
\* where group 1 starts, at the leftmost occurrence of the label that matches
SearchLine(text, label) ==
    LET hits == {i \in Occurrences(lower(text), lower(label)) :
                    AfterSpaces(text, i + Len(label), ".") # 0}
    IN  IF hits = {} THEN 0 ELSE AfterSpaces(text, SetMin(hits) + Len(label), ".")

\* grab(pattern, name, default) for the three one-line fields. Every call of
\* grab gives a default, so its "Missing ..." error is never raised.
grab(text, label, default) ==
    LET b == SearchLine(text, label)
    IN  IF b = 0 THEN default ELSE strip(SubSeq(text, b, LineEnd(text, b)))

\* grab(r"HOOK_SCORE:\s*([0-9]{1,3})", "HOOK_SCORE", default="0")
grab_hook_score(text) ==
    LET label == LABEL_HOOK_SCORE
        hits  == {i \in Occurrences(lower(text), lower(label)) :
                     AfterSpaces(text, i + Len(label), "[0-9]") # 0}
    IN  IF hits = {} THEN <<"0">>
        ELSE LET b == AfterSpaces(text, SetMin(hits) + Len(label), "[0-9]")
             IN  strip(SubSeq(text, b, DigitsEnd(text, b, 3)))

\* clamp_hook_score without the clamp
clamp_hook_score_unclamped(hook_score_str) ==
    int(hook_score_str)

\* clamp_hook_score that rejects a score above 100 instead of clamping it
clamp_hook_score_rejecting(hook_score_str) ==
    IF int(hook_score_str) > 100 THEN 0 ELSE int(hook_score_str)

\* hook_score = max(0, min(100, int(hook_score_str))); int() is given one
\* to three digits, so ValueError is never raised
clamp_hook_score(hook_score_str) ==
    max(0, min(100, int(hook_score_str)))

\* re.search(r"CONVERSION_KILLERS:\s*(.+)", text, re.IGNORECASE | re.DOTALL),
\* then group(1).strip(); "" when there is no match
killers_block(text) ==
    LET label == LABEL_CONVERSION_KILLERS
        hits  == {i \in Occurrences(lower(text), lower(label)) :
                     AfterSpaces(text, i + Len(label), "(?s).") # 0}
    IN  IF hits = {} THEN <<>>
        ELSE strip(SubSeq(text, AfterSpaces(text, SetMin(hits) + Len(label), "(?s)."),
                          Len(text)))

\* last index of the run of digits that starts at b
RECURSIVE DigitRunEnd(_, _)
DigitRunEnd(s, b) ==
    IF b + 1 <= Len(s) /\ IsDigit(s[b + 1]) THEN DigitRunEnd(s, b + 1) ELSE b

\* re.match(r"^\s*\d+[\).\-\:]\s*(.+)$", line): where group 1 starts (0: no match)
match_item(line) ==
    LET d == SkipSpaces(line, 1)
    IN  IF ~(d <= Len(line) /\ IsDigit(line[d])) THEN 0
        ELSE LET sep == DigitRunEnd(line, d) + 1
             IN  IF sep <= Len(line) /\ line[sep] \in {")", ".", "-", ":"}
                 THEN AfterSpaces(line, sep + 1, ".")
                 ELSE 0

EmptyKiller ==
    [phrase |-> <<>>, reason |-> <<>>]

\* the body of the loop over killers_block.splitlines(): the items of one line
killer_of_line(raw_line) ==
    LET line == strip(raw_line)
        b == match_item(line)
    IN  IF line = <<>> \/ b = 0 THEN <<>>
        ELSE LET body == strip(SubSeq(line, b, Len(line)))
                 bar == IndexOf(body, "|", 1)
                 phrase == IF bar # 0 THEN strip(SubSeq(body, 1, bar - 1)) ELSE body
                 reason == IF bar # 0 THEN strip(SubSeq(body, bar + 1, Len(body))) ELSE <<>>
             IN  IF phrase # <<>> THEN <<[phrase |-> phrase, reason |-> reason]>> ELSE <<>>

RECURSIVE killers_of_lines(_)
killers_of_lines(lines) ==
    IF lines = <<>> THEN <<>>
    ELSE killer_of_line(lines[1]) \o killers_of_lines(Tail(lines))

\* "Ensure exactly 3 items (pad or trim)" of the parser
RECURSIVE pad_killers(_)
pad_killers(killers) ==
    IF Len(killers) < 3 THEN pad_killers(Append(killers, EmptyKiller)) ELSE killers

\* trim_killers that keeps every item
trim_killers_keeping_all(killers) ==
    killers

trim_killers(killers) ==
    IF Len(killers) > 3 THEN SubSeq(killers, 1, 3) ELSE killers

parse_killers(text) ==
    LET block == killers_block(text)
        killers == IF block # <<>> THEN killers_of_lines(splitlines(block)) ELSE <<>>
    IN  trim_killers(pad_killers(killers))

\* _parse_insights_text without the test for an empty text
_parse_insights_text_unchecked(raw) ==
    LET text == strip(raw)
    IN  [ok |-> TRUE, error |-> NoError,
         value |-> [
             hook_score |-> clamp_hook_score(grab_hook_score(text)),
             hook_score_justification |-> grab(text, LABEL_HOOK_SCORE_JUSTIFICATION, <<>>),
             audience_persona |-> grab(text, LABEL_AUDIENCE_PERSONA, DEFAULT_PERSONA),
             audience_persona_justification |->
                 grab(text, LABEL_AUDIENCE_PERSONA_JUSTIFICATION, <<>>),
             conversion_killers |-> parse_killers(text)]]

\* [ok |-> TRUE, value |-> the dict] or [ok |-> FALSE, error |-> LLMServiceError]
_parse_insights_text(raw) ==
    LET text == strip(raw)
    IN  IF text = <<>>
        THEN [ok |-> FALSE, error |-> LLMServiceError(MSG_EMPTY_ANALYSIS)]
        ELSE [ok |-> TRUE, error |-> NoError,
              value |-> [
                  hook_score |-> clamp_hook_score(grab_hook_score(text)),
                  hook_score_justification |->
                      grab(text, LABEL_HOOK_SCORE_JUSTIFICATION, <<>>),
                  audience_persona |-> grab(text, LABEL_AUDIENCE_PERSONA, DEFAULT_PERSONA),
                  audience_persona_justification |->
                      grab(text, LABEL_AUDIENCE_PERSONA_JUSTIFICATION, <<>>),
                  conversion_killers |-> parse_killers(text)]]

------------------------------------------------------------------------------
(* _fallback_local_analysis                                                *)

\* fallback_hook_score with >= for > in the two length tests
fallback_hook_score_inclusive(hook_text) ==
    LET hook_lower == lower(hook_text)
        length == Len(strip(hook_text))
        s1 == 30
        s2 == IF length >= 20 THEN s1 + 15 ELSE s1
        s3 == IF length >= 60 THEN s2 + 15 ELSE s2
        s4 == IF ContainsAny(hook_lower, power_words) THEN s3 + 10 ELSE s3
        s5 == IF Contains(hook_text, <<"?">>) THEN s4 + 5 ELSE s4
    IN  max(10, min(95, s5))

fallback_hook_score(hook_text) ==
    LET hook == hook_text
        hook_lower == lower(hook)
        length == Len(strip(hook))
        s1 == 30
        s2 == IF length > 20 THEN s1 + 15 ELSE s1
        s3 == IF length > 60 THEN s2 + 15 ELSE s2
        s4 == IF ContainsAny(hook_lower, power_words) THEN s3 + 10 ELSE s3
        s5 == IF Contains(hook, <<"?">>) THEN s4 + 5 ELSE s4
    IN  max(10, min(95, s5))

\* fallback_persona with the marketing bucket tested first
fallback_persona_marketing_first(full_text) ==
    LET full_lower == lower(full_text)
    IN  IF ContainsAny(full_lower, marketing_keywords) THEN PERSONA_MARKETING
        ELSE IF ContainsAny(full_lower, developer_keywords) THEN PERSONA_DEVELOPER
        ELSE IF ContainsAny(full_lower, ecommerce_keywords) THEN PERSONA_ECOMMERCE
        ELSE PERSONA_GENERAL

fallback_persona(full_text) ==
    LET full_lower == lower(full_text)
    IN  IF ContainsAny(full_lower, developer_keywords) THEN PERSONA_DEVELOPER
        ELSE IF ContainsAny(full_lower, marketing_keywords) THEN PERSONA_MARKETING
        ELSE IF ContainsAny(full_lower, ecommerce_keywords) THEN PERSONA_ECOMMERCE
        ELSE PERSONA_GENERAL

\* the loop `for term in jargon_terms`, from the k-th term on
RECURSIVE jargon_killers(_, _)
jargon_killers(full_lower, k) ==
    IF k > Len(jargon_terms) THEN <<>>
    ELSE (IF Contains(full_lower, jargon_terms[k])
          THEN <<[phrase |-> jargon_terms[k], reason |-> JARGON_REASON]>>
          ELSE <<>>) \o jargon_killers(full_lower, k + 1)

fallback_killers(full_text) ==
    SubSeq(pad_killers(jargon_killers(lower(full_text), 1)), 1, 3)

_fallback_local_analysis(hook_text, full_text) ==
    [hook_score |-> fallback_hook_score(hook_text),
     hook_score_justification |-> FALLBACK_HOOK_JUST,
     audience_persona |-> fallback_persona(full_text),
     audience_persona_justification |-> FALLBACK_PERSONA_JUST,
     conversion_killers |-> fallback_killers(full_text),
     fallback_used |-> TRUE]

------------------------------------------------------------------------------
(* Inputs of the model: page texts, backend responses and backend errors   *)

HOOK_BEST_GUIDE ==
    <<"I", "s", " ", "t", "h", "i", "s", " ", "t", "h", "e", " ", "b", "e", "s", "t", " ", "g",
    "u", "i", "d", "e", "?">>

FULL_REACT_JARGON ==
    <<"o", "u", "r", " ", "r", "e", "a", "c", "t", " ", "f", "r", "o", "n", "t", "e", "n", "d",
    " ", "h", "e", "l", "p", "s", " ", "y", "o", "u", " ", "l", "e", "v", "e", "r", "a", "g",
    "e", " ", "s", "y", "n", "e", "r", "g", "y">>

FULL_DEV_AND_MARKETING ==
    <<"D", "e", "v", "e", "l", "o", "p", "e", "r", " ", "t", "o", "o", "l", "s", " ", "f", "o",
    "r", " ", "M", "a", "r", "k", "e", "t", "i", "n", "g", " ", "t", "e", "a", "m", "s">>

FULL_MARKETING_JARGON ==
    <<"g", "r", "o", "w", " ", "y", "o", "u", "r", " ", "b", "r", "a", "n", "d", " ", "w", "i",
    "t", "h", " ", "a", " ", "r", "o", "b", "u", "s", "t", ",", " ", "s", "c", "a", "l", "a",
    "b", "l", "e", ",", " ", "d", "a", "t", "a", "-", "d", "r", "i", "v", "e", "n", " ", "c",
    "a", "m", "p", "a", "i", "g", "n", " ", "a", "n", "d", " ", "a", " ", "h", "o", "l", "i",
    "s", "t", "i", "c", " ", "v", "i", "e", "w">>

FULL_SHOP_AND_BRAND ==
    <<"s", "h", "o", "p", " ", "o", "u", "r", " ", "c", "a", "r", "t", " ", "a", "n", "d", " ",
    "c", "h", "e", "c", "k", "o", "u", "t", " ", "f", "o", "r", " ", "b", "r", "a", "n", "d",
    " ", "n", "e", "w", " ", "d", "e", "a", "l", "s">>

FULL_ECOMMERCE ==
    <<"a", "d", "d", " ", "t", "o", " ", "c", "a", "r", "t", ",", " ", "t", "h", "e", "n", " ",
    "c", "h", "e", "c", "k", "o", "u", "t">>

FULL_PLAIN ==
    <<"h", "e", "l", "l", "o", " ", "w", "o", "r", "l", "d">>

FULL_BANDWIDTH ==
    <<"w", "e", " ", "h", "a", "v", "e", " ", "t", "h", "e", " ", "b", "a", "n", "d", "w", "i",
    "d", "t", "h">>

FULL_TOUCH_BASE ==
    <<"l", "e", "t", " ", "u", "s", " ", "t", "o", "u", "c", "h", " ", "b", "a", "s", "e", " ",
    "a", "n", "d", " ", "t", "h", "i", "n", "k", " ", "o", "u", "t", "s", "i", "d", "e", " ",
    "t", "h", "e", " ", "b", "o", "x">>

FULL_EMPTY ==
    <<>>

FULL_UPPER ==
    <<"S", "Y", "N", "E", "R", "G", "Y", " ", "a", "t", " ", "s", "c", "a", "l", "e">>

FULL_CIRCLE_BACK ==
    <<"l", "e", "t", "U+2019", "s", " ", "c", "i", "r", "c", "l", "e", " ", "b", "a", "c", "k",
    " ", "o", "n", " ", "t", "h", "e", " ", "a", "c", "t", "i", "o", "n", " ", "p", "l", "a",
    "n">>

FULL_LEVERAGE_SYNERGY ==
    <<"l", "e", "v", "e", "r", "a", "g", "e", " ", "s", "y", "n", "e", "r", "g", "y">>

VALUE_HOOK_JUST ==
    <<"C", "l", "e", "a", "r", " ", "p", "r", "o", "m", "i", "s", "e", ",", " ", "w", "e", "a",
    "k", " ", "p", "r", "o", "o", "f">>

VALUE_PERSONA ==
    <<"F", "r", "o", "n", "t", "e", "n", "d", " ", "d", "e", "v", "e", "l", "o", "p", "e", "r",
    "s">>

VALUE_PERSONA_JUST ==
    <<"M", "e", "n", "t", "i", "o", "n", "s", " ", "R", "e", "a", "c", "t", " ", "t", "w", "i",
    "c", "e">>

SCORE_TEXT_WORD ==
    <<"h", "i", "g", "h">>

SCORE_TEXT_NEGATIVE ==
    <<"-", "5">>

SCORE_TEXT_NA ==
    <<"N", "/", "A">>

WORD_FOO ==
    <<"f", "o", "o">>

WORD_BAR ==
    <<"b", "a", "r">>

WORD_BAZ ==
    <<"b", "a", "z">>

WORD_QUX ==
    <<"q", "u", "x">>

WORD_QUUX ==
    <<"q", "u", "u", "x">>

NOTE_LINE ==
    <<"N", "o", "t", "e", ":", " ", "n", "o", "t", "h", "i", "n", "g", " ", "e", "l", "s", "e">>

REFUSAL_TEXT ==
    <<"S", "o", "r", "r", "y", ",", " ", "I", " ", "c", "a", "n", "n", "o", "t", " ", "a", "n",
    "a", "l", "y", "z", "e", " ", "t", "h", "i", "s", " ", "p", "a", "g", "e", ".">>

BackendErrors ==
    { [type |-> <<"S", "e", "r", "v", "i", "c", "e", "U", "n", "a", "v", "a", "i", "l", "a", "b", "l", "e">>,
       msg |-> <<"5", "0", "3", " ", "S", "e", "r", "v", "i", "c", "e", " ", "U", "n", "a", "v", "a", "i", "l", "a", "b", "l", "e">>],
      [type |-> <<"I", "n", "t", "e", "r", "n", "a", "l", "S", "e", "r", "v", "e", "r", "E", "r", "r", "o", "r">>,
       msg |-> <<"A", "n", " ", "I", "N", "T", "E", "R", "N", "A", "L", " ", "e", "r", "r", "o", "r", " ", "o", "c", "c", "u", "r", "r", "e", "d">>],
      [type |-> <<"D", "e", "a", "d", "l", "i", "n", "e", "E", "x", "c", "e", "e", "d", "e", "d">>,
       msg |-> <<"D", "e", "a", "d", "l", "i", "n", "e", " ", "E", "x", "c", "e", "e", "d", "e", "d">>],
      [type |-> <<"R", "e", "s", "o", "u", "r", "c", "e", "E", "x", "h", "a", "u", "s", "t", "e", "d">>,
       msg |-> <<"4", "2", "9", " ", "q", "u", "o", "t", "a", " ", "e", "x", "c", "e", "e", "d", "e", "d">>],
      [type |-> <<"V", "a", "l", "u", "e", "E", "r", "r", "o", "r">>,
       msg |-> <<>>] }

ModelError ==
    [type |-> <<"T", "y", "p", "e", "E", "r", "r", "o", "r">>,
     msg |-> <<"m", "o", "d", "e", "l", "_", "n", "a", "m", "e", " ", "m", "u", "s", "t", " ", "b", "e", " ", "a", " ", "s", "t", "r", "i", "n", "g">>]

BLOCK_REASON_SAFETY ==
    <<"S", "A", "F", "E", "T", "Y">>

RECURSIVE Rep(_, _)
Rep(c, n) ==
    IF n <= 0 THEN <<>> ELSE <<c>> \o Rep(c, n - 1)

\* A hook text, described by what it is made of: `pad` blanks on either
\* side of a body of `len` characters that starts with `word` (a power word
\* in some case, or nothing) and ends with "?" when `q`.
PowerHookWords ==
    { <<"f", "r", "e", "e">>, <<"F", "R", "E", "E">>, <<"P", "r", "o", "v", "e", "n">>,
      <<"B", "e", "s", "t">>, <<"g", "u", "i", "d", "e">>,
      <<"U", "l", "t", "i", "m", "a", "t", "e">>,
      <<"s", "t", "e", "p", "-", "b", "y", "-", "s", "t", "e", "p">> }

HookWords ==
    PowerHookWords \cup { <<>>, <<"f", "r", "e", "s", "h">> }

HookDescs ==
    {d \in [pad : {0, 3}, len : {0, 8, 20, 21, 60, 61, 70}, word : HookWords, q : BOOLEAN] :
        d.len >= Len(d.word) + (IF d.q THEN 1 ELSE 0)}

RenderHook(d) ==
    LET mark == IF d.q THEN <<"?">> ELSE <<>>
    IN  Rep(" ", d.pad) \o d.word \o Rep("x", d.len - Len(d.word) - Len(mark)) \o mark
        \o Rep(" ", d.pad)

HOOK_70_FREE_Q ==
    RenderHook([pad |-> 0, len |-> 70, word |-> <<"f", "r", "e", "e">>, q |-> TRUE])

\* Full page texts, each with the keyword buckets it holds words of
FullDescs ==
    { [text |-> FULL_REACT_JARGON,      dev |-> TRUE,  mkt |-> FALSE, shop |-> FALSE],
      [text |-> FULL_DEV_AND_MARKETING, dev |-> TRUE,  mkt |-> TRUE,  shop |-> FALSE],
      [text |-> FULL_MARKETING_JARGON,  dev |-> FALSE, mkt |-> TRUE,  shop |-> FALSE],
      [text |-> FULL_SHOP_AND_BRAND,    dev |-> FALSE, mkt |-> TRUE,  shop |-> TRUE],
      [text |-> FULL_ECOMMERCE,         dev |-> FALSE, mkt |-> FALSE, shop |-> TRUE],
      [text |-> FULL_PLAIN,             dev |-> FALSE, mkt |-> FALSE, shop |-> FALSE],
      [text |-> FULL_BANDWIDTH,         dev |-> FALSE, mkt |-> FALSE, shop |-> FALSE],
      [text |-> FULL_TOUCH_BASE,        dev |-> FALSE, mkt |-> FALSE, shop |-> FALSE],
      [text |-> FULL_EMPTY,             dev |-> FALSE, mkt |-> FALSE, shop |-> FALSE],
      [text |-> FULL_UPPER,             dev |-> FALSE, mkt |-> FALSE, shop |-> FALSE],
      [text |-> FULL_CIRCLE_BACK,       dev |-> FALSE, mkt |-> FALSE, shop |-> FALSE],
      [text |-> FULL_LEVERAGE_SYNERGY,  dev |-> FALSE, mkt |-> FALSE, shop |-> FALSE] }

FullTexts ==
    {d.text : d \in FullDescs}

\* the (hook_text, full_text) pairs analyze_marketing_insights is called with
AnalyzeInputs ==
    { [hook |-> HOOK_BEST_GUIDE, full |-> FULL_REACT_JARGON],
      [hook |-> HOOK_70_FREE_Q,  full |-> FULL_SHOP_AND_BRAND],
      [hook |-> <<>>,            full |-> FULL_BANDWIDTH],
      [hook |-> <<"H", "i">>,    full |-> FULL_EMPTY] }

\* the inputs the heuristic is applied to on its own
FallbackInputs ==
    {[hook |-> RenderHook(d), full |-> f] : d \in HookDescs, f \in FullTexts}
        \cup AnalyzeInputs

(* Response texts, described by what they are made of. *)

\* the integer scores a response text may carry
MaxScore ==
    150

ScoreValues ==
    (0..MaxScore) \cup {999}

\* the HOOK_SCORE line: absent, an integer, a non-numeric value, no value
ScoreFields ==
    {[kind |-> "absent", v |-> 0, raw |-> <<>>], [kind |-> "empty", v |-> 0, raw |-> <<>>]}
        \cup {[kind |-> "int", v |-> n, raw |-> str(n)] : n \in ScoreValues}
        \cup {[kind |-> "text", v |-> 0, raw |-> r] :
                 r \in {SCORE_TEXT_WORD, SCORE_TEXT_NEGATIVE, SCORE_TEXT_NA}}

FewScoreFields ==
    {s \in ScoreFields : s.kind # "int" \/ s.v \in {42, 150}}

\* a one-line field: absent, present with a value, present with no value
LineFields ==
    {"absent", "value", "empty"}

\* A line of the killers block. kind "item": <n><sep> <phrase> | <reason>;
\* "tight": the same without blanks; "indent": the same with more blanks,
\* some of them leading; "nobar": <n><sep> <phrase>;
\* "nophrase": <n><sep> | <reason>; "bare": <n><sep>; "note": free text;
\* "blank": blanks only.
KLine(kind, n, sep, phrase, reason) ==
    [kind |-> kind, n |-> n, sep |-> sep, phrase |-> phrase, reason |-> reason]

RenderKLine(l) ==
    CASE l.kind = "item"     -> str(l.n) \o <<l.sep, " ">> \o l.phrase \o <<" ", "|", " ">> \o l.reason
      [] l.kind = "tight"    -> str(l.n) \o <<l.sep>> \o l.phrase \o <<"|">> \o l.reason
      [] l.kind = "nobar"    -> str(l.n) \o <<l.sep, " ">> \o l.phrase
      [] l.kind = "indent"   -> <<" ", " ">> \o str(l.n) \o <<l.sep, " ", " ">> \o l.phrase
                                    \o <<" ", "|">> \o l.reason
      [] l.kind = "nophrase" -> str(l.n) \o <<l.sep, " ", "|", " ">> \o l.reason
      [] l.kind = "bare"     -> str(l.n) \o <<l.sep>>
      [] l.kind = "note"     -> l.phrase
      [] l.kind = "blank"    -> <<" ", " ">>

K_FOO_BAR ==
    KLine("item", 1, ")", WORD_FOO, WORD_BAR)

K_BAZ ==
    KLine("nobar", 2, ")", WORD_BAZ, <<>>)

K_QUX ==
    KLine("tight", 3, ".", WORD_QUX, WORD_BAR)

K_QUUX ==
    KLine("item", 14, "-", WORD_QUUX, WORD_FOO \o <<" ", "|", " ">> \o WORD_BAR)

K_FIFTH ==
    KLine("indent", 5, ":", WORD_BAR, WORD_BAZ)

K_NOPHRASE ==
    KLine("nophrase", 2, ")", <<>>, WORD_BAR)

K_BARE ==
    KLine("bare", 3, ")", <<>>, <<>>)

K_NOTE ==
    KLine("note", 0, "", NOTE_LINE, <<>>)

K_BLANK ==
    KLine("blank", 0, "", <<>>, <<>>)

\* the killers blocks: the label ("upper", "lower" or "absent") and the lines
KillerBlocks ==
    { [label |-> "absent", lines |-> <<>>],
      [label |-> "upper",  lines |-> <<>>],
      [label |-> "upper",  lines |-> <<K_FOO_BAR>>],
      [label |-> "upper",  lines |-> <<K_FOO_BAR, K_BAZ>>],
      [label |-> "lower",  lines |-> <<K_FOO_BAR, K_BAZ, K_QUX>>],
      [label |-> "upper",  lines |-> <<K_FOO_BAR, K_BAZ, K_QUX, K_QUUX, K_FIFTH>>],
      [label |-> "upper",  lines |-> <<K_NOPHRASE, K_QUUX, K_BLANK, K_BARE, K_BAZ, K_NOTE, K_FIFTH, K_QUX>>],
      [label |-> "upper",  lines |-> <<K_NOTE, K_NOPHRASE, K_BARE>>],
      [label |-> "upper",  lines |-> <<K_BLANK, K_QUX, K_NOPHRASE>>],
      [label |-> "absent", lines |-> <<K_FOO_BAR, K_BAZ>>] }

StandardBlock ==
    [label |-> "upper", lines |-> <<K_FOO_BAR, K_BAZ>>]

FewKillerBlocks ==
    {StandardBlock, [label |-> "absent", lines |-> <<>>],
     [label |-> "absent", lines |-> <<K_FOO_BAR, K_BAZ>>]}

ResponseDesc(score, just, persona, pjust, killers) ==
    [score |-> score, just |-> just, persona |-> persona, pjust |-> pjust, killers |-> killers]

\* the response texts the parser is applied to: every score with the other
\* lines as the template has them, every combination of the one-line fields,
\* and every killers block
ParserDescs ==
    {ResponseDesc(s, "value", "value", "value", StandardBlock) : s \in ScoreFields}
        \cup {ResponseDesc(s, j, p, q, k) :
                 s \in FewScoreFields, j \in LineFields, p \in LineFields, q \in LineFields,
                 k \in FewKillerBlocks}
        \cup {ResponseDesc(s, j, j, j, k) :
                 s \in FewScoreFields, j \in LineFields, k \in KillerBlocks}

RenderField(label, field, value) ==
    CASE field = "absent" -> <<>>
      [] field = "empty"  -> <<label>>
      [] field = "value"  -> <<label \o <<" ">> \o value>>

RenderScore(s) ==
    CASE s.kind = "absent" -> <<>>
      [] s.kind = "empty"  -> <<LABEL_HOOK_SCORE>>
      [] OTHER             -> <<LABEL_HOOK_SCORE \o <<" ">> \o s.raw>>

RenderKillers(k) ==
    (CASE k.label = "absent" -> <<>>
       [] k.label = "upper"  -> <<LABEL_CONVERSION_KILLERS>>
       [] k.label = "lower"  -> <<lower(LABEL_CONVERSION_KILLERS)>>)
    \o [i \in 1..Len(k.lines) |-> RenderKLine(k.lines[i])]

\* the text of a described response: its lines, joined by newlines
RenderResponse(d) ==
    join(<<NL>>,
         RenderScore(d.score)
         \o RenderField(LABEL_HOOK_SCORE_JUSTIFICATION, d.just, VALUE_HOOK_JUST)
         \o RenderField(LABEL_AUDIENCE_PERSONA, d.persona, VALUE_PERSONA)
         \o RenderField(LABEL_AUDIENCE_PERSONA_JUSTIFICATION, d.pjust, VALUE_PERSONA_JUST)
         \o RenderKillers(d.killers))

\* the texts _parse_insights_text is applied to on its own: the described
\* texts, plain and wrapped in whitespace, and the texts strip() empties
ParserInputs ==
    {RenderResponse(d) : d \in ParserDescs}
        \cup {<<" ", NL>> \o RenderResponse(d) \o <<NL, " ">> :
                 d \in {ResponseDesc(s, "value", "value", "value", StandardBlock) :
                           s \in FewScoreFields}}
        \cup {<<>>, <<" ">>, <<NL, " ", NL>>, <<"\t", " ">>}

\* A well-formed response: the template's five labels, in the template's order
WellFormed(d) ==
    /\ d.score.kind # "absent"
    /\ d.just # "absent" /\ d.persona # "absent" /\ d.pjust # "absent"
    /\ d.killers.label # "absent"

Candidate(parts) ==
    [has_content |-> TRUE, parts |-> parts]

NoContent ==
    [has_content |-> FALSE, parts |-> <<>>]

Response(candidates, block_reason) ==
    [candidates |-> candidates, block_reason |-> block_reason]

TEXT_TEMPLATE ==
    RenderResponse(ResponseDesc([kind |-> "int", v |-> 82, raw |-> str(82)],
                                "value", "value", "value", StandardBlock))

TEXT_HEAD_150 ==
    RenderResponse(ResponseDesc([kind |-> "int", v |-> 150, raw |-> str(150)],
                                "value", "absent", "absent",
                                [label |-> "absent", lines |-> <<>>]))

TEXT_TAIL_FIVE ==
    RenderResponse(ResponseDesc([kind |-> "absent", v |-> 0, raw |-> <<>>],
                                "absent", "value", "empty",
                                [label |-> "upper",
                                 lines |-> <<K_FOO_BAR, K_BAZ, K_QUX, K_QUUX, K_FIFTH>>]))

\* what model.generate_content returns: one part, several parts, several
\* candidates, a text that does not follow the template, and the responses
\* that carry no text (with and without a safety block)
BackendResponses ==
    { Response(<<Candidate(<<TEXT_TEMPLATE>>)>>, <<>>),
      Response(<<Candidate(<<TEXT_HEAD_150 \o <<NL>>, <<>>, TEXT_TAIL_FIVE>>)>>, <<>>),
      Response(<<NoContent, Candidate(<<TEXT_HEAD_150>>), Candidate(<<TEXT_TAIL_FIVE>>)>>,
               BLOCK_REASON_SAFETY),
      Response(<<Candidate(<<REFUSAL_TEXT>>)>>, <<>>),
      Response(<<>>, <<>>),
      Response(<<>>, BLOCK_REASON_SAFETY),
      Response(<<NoContent>>, <<>>),
      Response(<<Candidate(<<<<>>, <<" ", NL>>>>), Candidate(<<>>)>>, <<>>) }

------------------------------------------------------------------------------
(* The process: the module-level state of llm_service.py and the threads    *)
(* that call analyze_marketing_insights                                     *)

VARIABLES
    environ,             \* os.environ: each variable's value, <<>> when it is not set
    SETTINGS,            \* the AppSettings singleton
    _client_configured,  \* the module-level flag of llm_service.py
    genai,               \* the library: how often configure() succeeded, how often the key was read
    calls,               \* the calls of analyze_marketing_insights started so far
    th                   \* the frame of each thread's call

vars ==
    <<environ, SETTINGS, _client_configured, genai, calls, th>>

Threads ==
    {1, 2}

\* os.getenv(name), with <<>> for None
getenv(env, name) ==
    env[name]

\* settings.py, AppSettings.__init__:
\* self.gemini_max_retries = int(os.getenv("GEMINI_MAX_RETRIES", MAX_RETRIES))
AppSettings(env) ==
    [gemini_max_retries |-> IF getenv(env, "GEMINI_MAX_RETRIES") = <<>>
                            THEN MAX_RETRIES
                            ELSE int(getenv(env, "GEMINI_MAX_RETRIES"))]

\* _configure_client, line 27:
\* api_key = os.getenv("GEMINI_API_KEY") or os.getenv("GOOGLE_API_KEY")
read_api_key(env) ==
    IF getenv(env, "GEMINI_API_KEY") # <<>>
    THEN getenv(env, "GEMINI_API_KEY")
    ELSE getenv(env, "GOOGLE_API_KEY")

\* the environments a process is started in
Environments ==
    [GEMINI_API_KEY : {<<>>, <<"k", "1">>},
     GOOGLE_API_KEY : {<<>>, <<"k", "2">>},
     GEMINI_MAX_RETRIES : {<<>>} \cup {str(n) : n \in 0..MaxRetriesOverride}]

\* getattr(obj, name, default)
getattr(obj, name, default) ==
    IF name \in DOMAIN obj THEN obj[name] ELSE default

\* d[key] = value on a dict
setitem(d, key, value) ==
    [k \in DOMAIN d \cup {key} |-> IF k = key THEN value ELSE d[k]]

\* repr(last_error)
repr(e) ==
    IF e = NoError THEN REPR_NONE ELSE e.type \o <<"(", "'">> \o e.msg \o <<"'", ")">>

\* the test of line 145 on str(e).lower()
is_transient(e) ==
    ContainsAny(lower(e.msg), transient_indicators)

RECURSIVE Pow2(_)
Pow2(n) ==
    IF n <= 0 THEN 1 ELSE 2 * Pow2(n - 1)

\* backoff with the exponent off by one
backoff_from_two(attempt) ==
    Pow2(attempt)

\* line 146: wait = 2**(attempt - 1)
backoff(attempt) ==
    Pow2(attempt - 1)

\* what a call does to the outside world, in order: a call of
\* generate_content (attempt n, raising or not) or a sleep of n seconds
CallEvent(attempt, raised) ==
    [op |-> "generate_content", arg |-> attempt, raised |-> raised]

SleepEvent(seconds) ==
    [op |-> "sleep", arg |-> seconds, raised |-> FALSE]

\* the frame of a thread that is in no call
IdleFrame ==
    [pc |-> "idle", hook_text |-> <<>>, full_text |-> <<>>, max_retries |-> 0,
     attempt |-> 0, wait |-> 0, last_error |-> NoError, raw_response |-> <<>>,
     error |-> NoError, failed_in |-> "none", insights |-> <<>>, trace |-> <<>>]

Goto(t, label) ==
    th' = [th EXCEPT ![t].pc = label]

\* an exception leaves _call_gemini_api or _parse_insights_text; only an
\* LLMServiceError is caught by analyze_marketing_insights
Raise(frame, e, stage) ==
    [frame EXCEPT !.error = e, !.failed_in = stage,
                  !.pc = IF e.type = TYPE_LLMServiceError THEN "fallback" ELSE "raised"]

Init ==
    /\ environ \in Environments
    /\ SETTINGS = AppSettings(environ)
    /\ _client_configured = FALSE
    /\ genai = [configured |-> 0, key_reads |-> 0]
    /\ calls = 0
    /\ th = [t \in Threads |-> IdleFrame]

\* analyze_marketing_insights(hook_text, full_text) is called: the prompt is built
Call(t, inputs) ==
    /\ th[t].pc \in {"idle", "done", "raised"}
    /\ calls < MaxCalls
    /\ \E in \in inputs :
           th' = [th EXCEPT ![t] = [IdleFrame EXCEPT !.pc = "ensure",
                                                     !.hook_text = in.hook,
                                                     !.full_text = in.full]]
    /\ calls' = calls + 1
    /\ UNCHANGED <<environ, SETTINGS, _client_configured, genai>>

\* _ensure_client setting the flag before it configures
CheckConfigured_setting_flag_first(t) ==
    /\ th[t].pc = "ensure"
    /\ Goto(t, IF _client_configured THEN "model" ELSE "configure")
    /\ _client_configured' = TRUE
    /\ UNCHANGED <<environ, SETTINGS, genai, calls>>

\* _ensure_client: `if not _client_configured`
CheckConfigured(t) ==
    /\ th[t].pc = "ensure"
    /\ Goto(t, IF _client_configured THEN "model" ELSE "configure")
    /\ UNCHANGED <<environ, SETTINGS, _client_configured, genai, calls>>

\* _configure_client without the test of the key
ConfigureClient_without_key_check(t) ==
    /\ th[t].pc = "configure"
    /\ \E ok \in BOOLEAN :
           IF ok
           THEN /\ Goto(t, "set_flag")
                /\ genai' = [genai EXCEPT !.key_reads = @ + 1, !.configured = @ + 1]
           ELSE /\ th' = [th EXCEPT ![t] =
                             Raise(@, LLMServiceError(MSG_CONFIGURE_FAILED), "invoker")]
                /\ genai' = [genai EXCEPT !.key_reads = @ + 1]
    /\ UNCHANGED <<environ, SETTINGS, _client_configured, calls>>

\* _configure_client: the key is read; genai.configure succeeds or raises
ConfigureClient(t) ==
    /\ th[t].pc = "configure"
    /\ IF read_api_key(environ) = <<>>
       THEN /\ th' = [th EXCEPT ![t] = Raise(@, LLMServiceError(MSG_MISSING_KEY), "invoker")]
            /\ genai' = [genai EXCEPT !.key_reads = @ + 1]
       ELSE \E ok \in BOOLEAN :
                IF ok
                THEN /\ Goto(t, "set_flag")
                     /\ genai' = [genai EXCEPT !.key_reads = @ + 1, !.configured = @ + 1]
                ELSE /\ th' = [th EXCEPT ![t] =
                                  Raise(@, LLMServiceError(MSG_CONFIGURE_FAILED), "invoker")]
                     /\ genai' = [genai EXCEPT !.key_reads = @ + 1]
    /\ UNCHANGED <<environ, SETTINGS, _client_configured, calls>>

\* _ensure_client: `_client_configured = True`
SetConfigured(t) ==
    /\ th[t].pc = "set_flag"
    /\ _client_configured' = TRUE
    /\ Goto(t, "model")
    /\ UNCHANGED <<environ, SETTINGS, genai, calls>>

\* _call_gemini_api, lines 109-118: max_retries is read, the model object is
\* built (outside the try), the loop is entered
MakeModel(t) ==
    /\ th[t].pc = "model"
    /\ LET max_retries == getattr(SETTINGS, "gemini_max_retries", DEFAULT_MAX_RETRIES)
       IN  \E ok \in BOOLEAN :
               th' = [th EXCEPT ![t] =
                   IF ok
                   THEN [@ EXCEPT !.max_retries = max_retries,
                                  !.attempt = 1,
                                  !.pc = IF 1 <= max_retries THEN "generate" ELSE "exhausted"]
                   ELSE Raise([@ EXCEPT !.max_retries = max_retries], ModelError, "invoker")]
    /\ UNCHANGED <<environ, SETTINGS, _client_configured, genai, calls>>

\* the try block retrying once more at the last attempt
Generate_retrying_at_limit(t, responses) ==
    /\ th[t].pc = "generate"
    /\ LET called(raised) == [th[t] EXCEPT !.trace = Append(@, CallEvent(th[t].attempt, raised))]
       IN  \/ \E r \in responses :
                  LET x == _extract_text_from_response(r)
                      frame == called(FALSE)
                  IN  th' = [th EXCEPT ![t] =
                          IF x.ok THEN [frame EXCEPT !.raw_response = x.value, !.pc = "parse"]
                          ELSE Raise(frame, x.error, "invoker")]
           \/ \E e \in BackendErrors :
                  LET frame == called(TRUE)
                  IN
                  th' = [th EXCEPT ![t] =
                      IF is_transient(e) /\ frame.attempt <= frame.max_retries
                      THEN [frame EXCEPT !.last_error = e,
                                         !.wait = backoff(frame.attempt),
                                         !.pc = "sleep"]
                      ELSE Raise([frame EXCEPT !.last_error = e],
                                 LLMServiceError(MSG_UNEXPECTED_HEAD \o e.type \o <<":", " ">> \o e.msg),
                                 "invoker")]
    /\ UNCHANGED <<environ, SETTINGS, _client_configured, genai, calls>>

\* one pass of the try block: generate_content returns a response, whose
\* text is extracted, or raises
Generate(t, responses) ==
    /\ th[t].pc = "generate"
    /\ LET called(raised) == [th[t] EXCEPT !.trace = Append(@, CallEvent(th[t].attempt, raised))]
       IN  \/ \E r \in responses :
                  LET x == _extract_text_from_response(r)
                      frame == called(FALSE)
                  IN  th' = [th EXCEPT ![t] =
                          IF x.ok THEN [frame EXCEPT !.raw_response = x.value, !.pc = "parse"]
                          ELSE Raise(frame, x.error, "invoker")]
           \/ \E e \in BackendErrors :
                  LET frame == called(TRUE)
                  IN
                  th' = [th EXCEPT ![t] =
                      IF is_transient(e) /\ frame.attempt < frame.max_retries
                      THEN [frame EXCEPT !.last_error = e,
                                         !.wait = backoff(frame.attempt),
                                         !.pc = "sleep"]
                      ELSE Raise([frame EXCEPT !.last_error = e],
                                 LLMServiceError(MSG_UNEXPECTED_HEAD \o e.type \o <<":", " ">> \o e.msg),
                                 "invoker")]
    /\ UNCHANGED <<environ, SETTINGS, _client_configured, genai, calls>>

\* time.sleep(wait); continue
Sleep(t) ==
    /\ th[t].pc = "sleep"
    /\ th' = [th EXCEPT ![t] =
                 [@ EXCEPT !.trace = Append(@, SleepEvent(th[t].wait)),
                           !.attempt = @ + 1,
                           !.pc = "generate"]]
    /\ UNCHANGED <<environ, SETTINGS, _client_configured, genai, calls>>

\* lines 155-158: the loop ended without a return or a raise
Exhausted(t) ==
    /\ th[t].pc = "exhausted"
    /\ th' = [th EXCEPT ![t] =
                 Raise(@, LLMServiceError(MSG_EXHAUSTED_HEAD \o str(th[t].max_retries)
                                          \o MSG_EXHAUSTED_TAIL \o repr(th[t].last_error)),
                       "invoker")]
    /\ UNCHANGED <<environ, SETTINGS, _client_configured, genai, calls>>

\* lines 430-431: the response is parsed
Parse(t) ==
    /\ th[t].pc = "parse"
    /\ LET r == _parse_insights_text(th[t].raw_response)
       IN  th' = [th EXCEPT ![t] =
                     IF r.ok
                     THEN [@ EXCEPT !.insights = setitem(r.value, "fallback_used", FALSE),
                                    !.pc = "attach"]
                     ELSE Raise(@, r.error, "parser")]
    /\ UNCHANGED <<environ, SETTINGS, _client_configured, genai, calls>>

\* Fallback that does not record the error
Fallback_without_llm_error(t) ==
    /\ th[t].pc = "fallback"
    /\ th' = [th EXCEPT ![t] =
                 [@ EXCEPT !.insights =
                               _fallback_local_analysis(th[t].hook_text, th[t].full_text),
                           !.pc = "attach"]]
    /\ UNCHANGED <<environ, SETTINGS, _client_configured, genai, calls>>

\* lines 432-436: except LLMServiceError
Fallback(t) ==
    /\ th[t].pc = "fallback"
    /\ th' = [th EXCEPT ![t] =
                 [@ EXCEPT !.insights =
                               setitem(_fallback_local_analysis(th[t].hook_text, th[t].full_text),
                                       "llm_error", th[t].error.msg),
                           !.pc = "attach"]]
    /\ UNCHANGED <<environ, SETTINGS, _client_configured, genai, calls>>

\* lines 438-442: the inputs are attached and the dict is returned
Return(t) ==
    /\ th[t].pc = "attach"
    /\ th' = [th EXCEPT ![t] =
                 [@ EXCEPT !.insights = setitem(setitem(@, "hook_text_used", th[t].hook_text),
                                                "full_text_used", th[t].full_text),
                           !.pc = "done"]]
    /\ UNCHANGED <<environ, SETTINGS, _client_configured, genai, calls>>

\* one step of a call of analyze_marketing_insights by thread t
Step(t) ==
    \/ Call(t, AnalyzeInputs)
    \/ CheckConfigured(t)
    \/ ConfigureClient(t)
    \/ SetConfigured(t)
    \/ MakeModel(t)
    \/ Generate(t, BackendResponses)
    \/ Sleep(t)
    \/ Exhausted(t)
    \/ Parse(t)
    \/ Fallback(t)
    \/ Return(t)

\* calls made one after the other, on one thread (the second frame stays
\* idle: it is there for callers that run calls in parallel)
Next ==
    Step(1)

Spec ==
    Init /\ [][Next]_vars

(* _parse_insights_text on its own: the state in which _call_gemini_api has *)
(* just returned `raw` to analyze_marketing_insights on its first attempt.  *)

ParsingFrame(in, raw) ==
    [IdleFrame EXCEPT !.pc = "parse", !.hook_text = in.hook, !.full_text = in.full,
                      !.max_retries = MAX_RETRIES, !.attempt = 1, !.raw_response = raw,
                      !.trace = <<CallEvent(1, FALSE)>>]

InitParser ==
    /\ environ = [GEMINI_API_KEY |-> <<"k", "1">>, GOOGLE_API_KEY |-> <<>>,
                  GEMINI_MAX_RETRIES |-> <<>>]
    /\ SETTINGS = AppSettings(environ)
    /\ _client_configured = TRUE
    /\ genai = [configured |-> 1, key_reads |-> 1]
    /\ calls = 1
    /\ \E raw \in ParserInputs :
           th = [t \in Threads |->
                    IF t = 1
                    THEN ParsingFrame([hook |-> HOOK_BEST_GUIDE, full |-> FULL_REACT_JARGON], raw)
                    ELSE IdleFrame]

NextParser ==
    \/ Parse(1)
    \/ Fallback(1)
    \/ Return(1)

SpecParser ==
    InitParser /\ [][NextParser]_vars

(* _fallback_local_analysis on its own: the state in which _call_gemini_api *)
(* has just failed for want of an API key.                                  *)

InitFallback ==
    /\ environ = [GEMINI_API_KEY |-> <<>>, GOOGLE_API_KEY |-> <<>>,
                  GEMINI_MAX_RETRIES |-> <<>>]
    /\ SETTINGS = AppSettings(environ)
    /\ _client_configured = FALSE
    /\ genai = [configured |-> 0, key_reads |-> 1]
    /\ calls = 1
    /\ \E in \in FallbackInputs :
           th = [t \in Threads |->
                    IF t = 1
                    THEN Raise([IdleFrame EXCEPT !.hook_text = in.hook, !.full_text = in.full],
                               LLMServiceError(MSG_MISSING_KEY), "invoker")
                    ELSE IdleFrame]

NextFallback ==
    \/ Fallback(1)
    \/ Return(1)

SpecFallback ==
    InitFallback /\ [][NextFallback]_vars

(* Calls of analyze_marketing_insights running in parallel, one per thread, *)
(* in one process: the statements of the threads interleave, and a thread  *)
(* can be suspended between any two of them.                                *)

ThreadInputs ==
    { [hook |-> HOOK_BEST_GUIDE, full |-> FULL_REACT_JARGON] }

ThreadResponses ==
    { Response(<<Candidate(<<TEXT_TEMPLATE>>)>>, <<>>),
      Response(<<>>, BLOCK_REASON_SAFETY) }

\* the environments of the process: with and without a key, with no attempt
\* allowed and with one retry allowed
ThreadEnvironments ==
    {env \in Environments :
        /\ getenv(env, "GOOGLE_API_KEY") = <<>>
        /\ getenv(env, "GEMINI_MAX_RETRIES") \in {str(0), str(2)}}

InitThreads ==
    /\ environ \in ThreadEnvironments
    /\ SETTINGS = AppSettings(environ)
    /\ _client_configured = FALSE
    /\ genai = [configured |-> 0, key_reads |-> 0]
    /\ calls = 0
    /\ th = [t \in Threads |-> IdleFrame]

StepOfThread(t) ==
    \/ Call(t, ThreadInputs)
    \/ CheckConfigured(t)
    \/ ConfigureClient(t)
    \/ SetConfigured(t)
    \/ MakeModel(t)
    \/ Generate(t, ThreadResponses)
    \/ Sleep(t)
    \/ Exhausted(t)
    \/ Parse(t)
    \/ Fallback(t)
    \/ Return(t)

NextThreads ==
    \E t \in Threads : StepOfThread(t)

SpecThreads ==
    InitThreads /\ [][NextThreads]_vars

------------------------------------------------------------------------------
(* Properties                                                               *)

\* the frames of calls that have returned a dict
Returned(t) ==
    th[t].pc = "done"

\* the described inputs, each with its text
RenderedResponses ==
    {[d |-> d, text |-> RenderResponse(d)] : d \in ParserDescs}

RenderedHooks ==
    {[d |-> d, text |-> RenderHook(d)] : d \in HookDescs}

\* C1: analyze_marketing_insights always returns a dict and never lets an
\* exception reach its caller, whatever happens on the model path.
C1_NeverPropagates ==
    \A t \in Threads : th[t].pc # "raised"

\* C2: every returned dict has exactly 3 conversion_killers, a hook_score in
\* 0..100, and no llm_error key when fallback_used is false.
C2_InsightsInvariants ==
    \A t \in Threads :
        Returned(t) =>
            LET insights == th[t].insights
            IN  /\ Len(insights.conversion_killers) = 3
                /\ insights.hook_score \in 0..100
                /\ (insights.fallback_used = FALSE => "llm_error" \notin DOMAIN insights)

\* a call returned the parsed response, whose score of 150 was clamped
C2_Witness ==
    /\ Returned(1)
    /\ th[1].insights.fallback_used = FALSE
    /\ th[1].insights.hook_score = 100
    /\ Len(th[1].insights.conversion_killers) = 3

\* C3: in a returned dict fallback_used is true exactly when the invoker or
\* the parser failed; llm_error is there exactly when fallback_used is true,
\* and is then the non-empty message of the caught error; hook_text_used
\* and full_text_used are the two inputs on both paths.
C3_Provenance ==
    \A t \in Threads :
        Returned(t) =>
            LET insights == th[t].insights
            IN  /\ insights.fallback_used = (th[t].failed_in \in {"invoker", "parser"})
                /\ insights.fallback_used = (th[t].error # NoError)
                /\ ("llm_error" \in DOMAIN insights) = insights.fallback_used
                /\ insights.fallback_used =>
                       /\ insights.llm_error = th[t].error.msg
                       /\ Len(insights.llm_error) > 0
                /\ insights.hook_text_used = th[t].hook_text
                /\ insights.full_text_used = th[t].full_text

\* a call returned the heuristic's dict after the backend blocked the response
C3_Witness ==
    /\ Returned(1)
    /\ th[1].failed_in = "invoker"
    /\ th[1].insights.fallback_used = TRUE
    /\ th[1].insights.llm_error = MSG_BLOCKED_HEAD \o BLOCK_REASON_SAFETY \o MSG_BLOCKED_TAIL
    /\ th[1].insights.hook_text_used = HOOK_BEST_GUIDE

\* the calls and sleeps of an invocation whose first k attempts raise and
\* whose next attempt returns: sleeps of 1, 2, 4, ... seconds in between
BackoffSeconds ==
    <<1, 2, 4, 8, 16, 32, 64, 128>>

RetrySchedule(k) ==
    [i \in 1..(2 * k + 1) |->
        IF i % 2 = 1
        THEN CallEvent((i + 1) \div 2, i < 2 * k + 1)
        ELSE SleepEvent(BackoffSeconds[i \div 2])]

FailedAttempts(trace) ==
    Cardinality({i \in 1..Len(trace) : trace[i].op = "generate_content" /\ trace[i].raised})

\* C4: when the backend raises a transient-indicator error on the first k
\* attempts (k < max_retries) and then answers, the invoker returns the
\* text after exactly k+1 calls and k sleeps of 2^0, ..., 2^(k-1) seconds,
\* each sleep between the failed attempt and the next one.
C4_RetrySchedule ==
    \A t \in Threads :
        th[t].pc = "parse" =>
            LET k == FailedAttempts(th[t].trace)
            IN  /\ k < th[t].max_retries
                /\ th[t].trace = RetrySchedule(k)
                /\ (k > 0 => is_transient(th[t].last_error))

\* max_retries = 3, two transient errors, then the text: sleeps of 1 s and 2 s
C4_Witness ==
    /\ th[1].pc = "parse"
    /\ th[1].max_retries = 3
    /\ th[1].raw_response = TEXT_TEMPLATE
    /\ th[1].trace = <<CallEvent(1, TRUE), SleepEvent(1), CallEvent(2, TRUE), SleepEvent(2),
                       CallEvent(3, FALSE)>>

\* every attempt of the invocation raised a transient-indicator error
AllAttemptsTransient(t) ==
    /\ th[t].failed_in = "invoker"
    /\ th[t].trace # <<>>
    /\ th[t].trace[Len(th[t].trace)].raised
    /\ is_transient(th[t].last_error)

\* C5: with no retry-count override the invoker's max_retries is 3: against a
\* backend that raises a transient-indicator error on every attempt it makes
\* exactly 3 calls before it fails.
C5_DefaultThreeAttempts ==
    \A t \in Threads :
        (getenv(environ, "GEMINI_MAX_RETRIES") = <<>> /\ AllAttemptsTransient(t)) =>
            /\ th[t].max_retries = 3
            /\ FailedAttempts(th[t].trace) = 3

AllBlank(s) ==
    \A i \in 1..Len(s) : s[i] \in {" ", NL, "\t"}

\* C6: on a text that is empty after trimming the parser raises and returns
\* nothing; the call then returns the heuristic's dict, fallback_used true.
C6_EmptyTextFails ==
    \A t \in Threads :
        (th[t].pc \notin {"idle", "parse"} /\ AllBlank(th[t].raw_response)) =>
            /\ th[t].failed_in = "parser"
            /\ th[t].error = LLMServiceError(MSG_EMPTY_ANALYSIS)
            /\ th[t].pc \in {"fallback", "attach", "done"}
            /\ th[t].pc = "fallback" => th[t].insights = <<>>
            /\ th[t].pc \in {"attach", "done"} =>
                   /\ th[t].insights.fallback_used = TRUE
                   /\ th[t].insights.hook_score_justification = FALLBACK_HOOK_JUST
                   /\ th[t].insights.llm_error = MSG_EMPTY_ANALYSIS

\* the parser was given blanks and newlines only and the call has returned
C6_Witness ==
    /\ Returned(1)
    /\ th[1].raw_response = <<NL, " ", NL>>
    /\ th[1].failed_in = "parser"
    /\ th[1].insights.fallback_used = TRUE

\* C7: for a well-formed text the parser returns the HOOK_SCORE integer v
\* itself when 0 <= v <= 100, 100 when v has up to three digits and is above
\* 100, and 0 (without failing) when the value is non-numeric or empty.
C7_HookScore ==
    \A t \in Threads :
        th[t].pc \notin {"idle", "parse"} =>
            \A x \in RenderedResponses :
                (x.text = th[t].raw_response /\ WellFormed(x.d)) =>
                    /\ th[t].failed_in = "none"
                    /\ th[t].insights.hook_score =
                           CASE x.d.score.kind = "int" /\ x.d.score.v <= 100 -> x.d.score.v
                             [] x.d.score.kind = "int" /\ x.d.score.v > 100  -> 100
                             [] OTHER -> 0

\* the parser was given "HOOK_SCORE: 150" in a well-formed text
C7_Witness ==
    /\ Returned(1)
    /\ th[1].raw_response =
           RenderResponse(ResponseDesc([kind |-> "int", v |-> 150, raw |-> str(150)],
                                       "value", "value", "value", StandardBlock))
    /\ th[1].insights.hook_score = 100

\* the {phrase, reason} pair a described line of the killers block stands for
ExpectedKiller(l) ==
    CASE l.kind \in {"item", "tight", "indent"} -> <<[phrase |-> l.phrase, reason |-> l.reason]>>
      [] l.kind = "nobar" -> <<[phrase |-> l.phrase, reason |-> <<>>]>>
      [] OTHER -> <<>>

RECURSIVE ExpectedKillers(_)
ExpectedKillers(lines) ==
    IF lines = <<>> THEN <<>>
    ELSE ExpectedKiller(lines[1]) \o ExpectedKillers(Tail(lines))

FirstThree(items) ==
    [i \in 1..3 |-> IF i <= Len(items) THEN items[i] ELSE [phrase |-> <<>>, reason |-> <<>>]]

\* C8: conversion_killers is the candidate lines after the label, in order,
\* each split at its first "|" into trimmed phrase and reason, lines with
\* an empty phrase left out, cut to the first 3 or padded to 3 with empty pairs.
C8_ConversionKillers ==
    \A t \in Threads :
        (th[t].pc \in {"attach", "done"} /\ th[t].failed_in = "none") =>
            \A x \in RenderedResponses :
                x.text = th[t].raw_response =>
                    th[t].insights.conversion_killers =
                        FirstThree(IF x.d.killers.label = "absent" THEN <<>>
                                   ELSE ExpectedKillers(x.d.killers.lines))

\* the parser was given the lines "1) foo | bar" and "2) baz"
C8_Witness ==
    /\ Returned(1)
    /\ th[1].raw_response = TEXT_TEMPLATE
    /\ th[1].insights.conversion_killers =
           <<[phrase |-> WORD_FOO, reason |-> WORD_BAR],
             [phrase |-> WORD_BAZ, reason |-> <<>>],
             [phrase |-> <<>>, reason |-> <<>>]>>

\* C9: the heuristic's hook_score is 30, plus 15 when the trimmed hook is
\* longer than 20, plus 15 more when it is longer than 60, plus 10 when the
\* lower-cased hook holds a power word, plus 5 when the hook holds "?"; it
\* always lies in 10..95, and is 75 for a hook of 70 with "free" and "?".
C9_FallbackHookScore ==
    \A t \in Threads :
        (th[t].pc \in {"attach", "done"} /\ th[t].failed_in # "none") =>
            /\ th[t].insights.hook_score \in 10..95
            /\ \A x \in RenderedHooks :
                   x.text = th[t].hook_text =>
                       th[t].insights.hook_score =
                           30 + (IF x.d.len > 20 THEN 15 ELSE 0)
                              + (IF x.d.len > 60 THEN 15 ELSE 0)
                              + (IF x.d.word \in PowerHookWords THEN 10 ELSE 0)
                              + (IF x.d.q THEN 5 ELSE 0)

\* the heuristic scored a hook of length 70 that holds "free" and "?"
C9_Witness ==
    /\ Returned(1)
    /\ th[1].hook_text = HOOK_70_FREE_Q
    /\ Len(th[1].hook_text) = 70
    /\ th[1].insights.fallback_used = TRUE
    /\ th[1].insights.hook_score = 75

\* the indices of the jargon terms that occur in the lower-cased text
JargonHits(full_text) ==
    {k \in 1..Len(jargon_terms) : Contains(lower(full_text), jargon_terms[k])}

\* the i-th smallest element of a set of numbers (0 if there is none)
RECURSIVE Nth(_, _)
Nth(S, i) ==
    IF S = {} THEN 0
    ELSE IF i = 1 THEN SetMin(S)
    ELSE Nth(S \ {SetMin(S)}, i - 1)

JargonPair(term) ==
    [phrase |-> term, reason |-> JARGON_REASON]

BackendCalls(trace) ==
    {i \in 1..Len(trace) : trace[i].op = "generate_content"}

\* the calls and sleeps of an invocation that has made n calls, the first
\* n - 1 of which raised and were followed by a sleep
AttemptsSoFar(n, last_raised) ==
    [i \in 1..(2 * n - 1) |->
        IF i % 2 = 1
        THEN CallEvent((i + 1) \div 2, IF i < 2 * n - 1 THEN TRUE ELSE last_raised)
        ELSE SleepEvent(BackoffSeconds[i \div 2])]

\* C11: an invocation of _call_gemini_api makes at most max_retries calls of
\* generate_content and never sleeps after its last call; it retries only
\* after a transient-indicator error below attempt max_retries, and it ends
\* with an LLMServiceError, with no further call, no sleep and no text, at the
\* first attempt that fails otherwise (a blocked or text-less response
\* included) and at attempt max_retries when that attempt fails.
C11_BoundedAttempts ==
    \A t \in Threads :
        LET f == th[t]
            n == Cardinality(BackendCalls(f.trace))
        IN  /\ n <= f.max_retries
            /\ f.pc = "sleep" =>
                   /\ is_transient(f.last_error)
                   /\ f.attempt < f.max_retries
                   /\ f.trace = AttemptsSoFar(f.attempt, TRUE)
            /\ (f.pc \notin {"generate", "sleep"} /\ f.trace # <<>>) =>
                   f.trace[Len(f.trace)].op = "generate_content"
            /\ (f.failed_in = "invoker" /\ f.trace # <<>>) =>
                   LET last == f.trace[Len(f.trace)]
                   IN  /\ f.error.type = TYPE_LLMServiceError
                       /\ f.raw_response = <<>>
                       /\ f.trace = AttemptsSoFar(n, last.raised)
                       /\ last.arg = n
                       /\ last.raised =>
                              \/ ~is_transient(f.last_error)
                              \/ n = f.max_retries
                       /\ f.pc = "done" =>
                              /\ f.insights.fallback_used = TRUE
                              /\ f.insights.llm_error = f.error.msg

\* max_retries = 3 and three transient errors: the invocation ended at the
\* third call, after sleeps of 1 s and 2 s, with an LLMServiceError
C11_Witness ==
    /\ th[1].pc = "fallback"
    /\ th[1].max_retries = 3
    /\ is_transient(th[1].last_error)
    /\ th[1].error.type = TYPE_LLMServiceError
    /\ th[1].trace = <<CallEvent(1, TRUE), SleepEvent(1), CallEvent(2, TRUE), SleepEvent(2),
                       CallEvent(3, TRUE)>>

\* C12: whatever the interleaving of the calls running on separate threads,
\* genai.configure is performed successfully at most once in the process.
C12_ConfigureOnce ==
    genai.configured <= 1

\* the text carries no HOOK_SCORE label at all
NoHookScoreLabel(text) ==
    ~Contains(lower(text), lower(LABEL_HOOK_SCORE))

\* C13: on a non-empty response text without any HOOK_SCORE label the parser
\* fails with an LLMServiceError, and analyze_marketing_insights returns the
\* heuristic's dict with fallback_used = true.
C13_MissingHookScoreFails ==
    \A t \in Threads :
        (/\ th[t].pc \in {"fallback", "attach", "done"}
         /\ ~AllBlank(th[t].raw_response)
         /\ NoHookScoreLabel(th[t].raw_response)) =>
            /\ th[t].failed_in = "parser"
            /\ th[t].error.type = TYPE_LLMServiceError
            /\ th[t].pc = "done" => th[t].insights.fallback_used = TRUE

\* the labels of the template, as the patterns spell them
TemplateLabels ==
    {LABEL_HOOK_SCORE, LABEL_HOOK_SCORE_JUSTIFICATION, LABEL_AUDIENCE_PERSONA,
     LABEL_AUDIENCE_PERSONA_JUSTIFICATION, LABEL_CONVERSION_KILLERS}

\* the value holds (part of) a labelled line
HoldsLabel(value) ==
    \E label \in TemplateLabels : Contains(lower(value), lower(label))

\* C14: the values the parser returns for HOOK_SCORE_JUSTIFICATION,
\* AUDIENCE_PERSONA and AUDIENCE_PERSONA_JUSTIFICATION come from the label's
\* own line only: no returned value holds the text of a following labelled
\* line, also when the label's own line has no value.
C14_NoLeakIntoNextField ==
    \A t \in Threads :
        (th[t].pc \in {"attach", "done"} /\ th[t].failed_in = "none") =>
            \A x \in RenderedResponses :
                (x.text = th[t].raw_response) =>
                    /\ ~HoldsLabel(th[t].insights.hook_score_justification)
                    /\ ~HoldsLabel(th[t].insights.audience_persona)
                    /\ ~HoldsLabel(th[t].insights.audience_persona_justification)

\* neither GEMINI_API_KEY nor GOOGLE_API_KEY is set
NoCredential ==
    getenv(environ, "GEMINI_API_KEY") = <<>> /\ getenv(environ, "GOOGLE_API_KEY") = <<>>

\* C15: without a credential _call_gemini_api fails in _ensure_client, before
\* any call of generate_content and without a sleep, and
\* analyze_marketing_insights returns the heuristic's dict with
\* fallback_used = true and the error's message as llm_error.
C15_MissingCredential ==
    \A t \in Threads :
        (NoCredential /\ th[t].pc \notin {"idle", "ensure", "configure"}) =>
            /\ th[t].pc \in {"fallback", "attach", "done"}
            /\ th[t].failed_in = "invoker"
            /\ th[t].error = LLMServiceError(MSG_MISSING_KEY)
            /\ th[t].trace = <<>>
            /\ th[t].attempt = 0
            /\ _client_configured = FALSE
            /\ genai.configured = 0
            /\ th[t].pc = "done" =>
                   /\ th[t].insights.fallback_used = TRUE
                   /\ th[t].insights.llm_error = MSG_MISSING_KEY

\* no key is set and a call has returned the heuristic's dict
C15_Witness ==
    /\ NoCredential
    /\ Returned(1)
    /\ th[1].trace = <<>>
    /\ th[1].insights.fallback_used = TRUE
    /\ th[1].insights.llm_error = MSG_MISSING_KEY
    /\ th[1].insights.hook_text_used = HOOK_70_FREE_Q

\* the call of thread t has not yet been through _configure_client
BeforeConfigure(t) ==
    th[t].pc \in {"ensure", "configure"}

\* what holds of the flag in every state of a process whose calls are made
\* one after the other
FlagState ==
    /\ _client_configured => genai.configured = 1
    /\ ~_client_configured =>
           /\ genai.configured = (IF th[1].pc = "set_flag" THEN 1 ELSE 0)
           /\ genai.key_reads = calls - (IF BeforeConfigure(1) THEN 1 ELSE 0)
    /\ (th[1].failed_in = "invoker"
           /\ th[1].error.msg \in {MSG_MISSING_KEY, MSG_CONFIGURE_FAILED}) =>
           ~_client_configured

\* what holds of the flag in every step
FlagStep ==
    /\ _client_configured => _client_configured'
    /\ (~_client_configured /\ _client_configured') =>
           /\ th[1].pc = "set_flag"
           /\ genai.configured = 1
    /\ _client_configured => genai' = genai

\* C16: over the calls of one process made one after the other,
\* _client_configured becomes true only after a _configure_client that
\* raised nothing and never becomes false again; a call whose configuration
\* fails leaves it false, so that the next call reads the key and configures
\* again; once it is true no call reads the key or configures.
C16_FlagMonotone ==
    [](FlagState) /\ [][FlagStep]_vars

\* the first call failed to configure, the second one configured and set
\* the flag
C16_Witness ==
    /\ calls = 2
    /\ genai.key_reads = 2
    /\ genai.configured = 1
    /\ _client_configured = TRUE
    /\ th[1].pc = "model"

\* C17: in every dict of _fallback_local_analysis no two conversion_killers
\* with a non-empty phrase carry the same phrase.
C17_DistinctFallbackKillers ==
    \A t \in Threads :
        (th[t].pc \in {"attach", "done"} /\ th[t].insights.fallback_used = TRUE) =>
            LET killers == th[t].insights.conversion_killers
            IN  \A i \in 1..Len(killers) : \A j \in 1..Len(killers) :
                    (i < j /\ killers[i].phrase # <<>>) =>
                        killers[i].phrase # killers[j].phrase

====
